---------------------------- MODULE Spec2Model ----------------------------
(***************************************************************************)
(* Model of src/windows/types.rs of dump_syms: the TypeDumper (catalog of  *)
(* PDB type records, forward-reference size table, size calculator, type   *)
(* printer, function-signature builder) and FuncName::get_unknown, the     *)
(* heuristic parser of legacy MSVC name decorations.                       *)
(*                                                                         *)
(* Text is modelled by TLA+ strings, one character per string position.    *)
(* The character written "~" stands for a character outside ASCII (such as *)
(* U+00E9), whose UTF-8 encoding is longer than one byte; every other      *)
(* character of the model is ASCII and takes one byte.                     *)
(*                                                                         *)
(* Outcomes of an operation are records: tag "Ok"/"Undecorated"/"Unknown"  *)
(* for a returned value, "Err" for a returned Result::Err, "Panic" for an  *)
(* abort (unwrap on None/Err, division by zero, slicing inside a           *)
(* character, index out of bounds), "Diverge" for a walk that never ends.  *)
(***************************************************************************)
EXTENDS Integers, Sequences, FiniteSets, TLC

VARIABLES
    types,      \* the type stream handed to TypeDumper::new, in scan order
    scanned,    \* number of records of the stream TypeDumper::new has scanned
    fwd,        \* TypeDumper.fwd: linkage name -> size
    ptr_size,   \* TypeDumper.ptr_size
    pc,         \* "none" (no dumper), "new" (scanning), "ready" (constructed)
    call,       \* the last query made: operation and arguments
    result,     \* its outcome
    walk        \* position of the chain walk in progress (step-wise queries)

vars == <<types, scanned, fwd, ptr_size, pc, call, result, walk>>

----------------------------------------------------------------------------
(* Bounds of the model *)

MaxNameLen == 4
MaxTypes == 3

----------------------------------------------------------------------------
(* Strings *)

CharAt(s, i) == SubSeq(s, i, i)

LastChar(s) == CharAt(s, Len(s))

\* Bytes the character takes in UTF-8 ("~" stands for a non-ASCII character).
Utf8Len(c) == IF c = "~" THEN 2 ELSE 1

\* str::find with a predicate: does some character of s belong to cs
ContainsAny(s, cs) == \E i \in 1..Len(s) : CharAt(s, i) \in cs

\* position of the last occurrence of character c in s, 0 when there is none
LastIndexOf(s, c) ==
    LET hits == {i \in 1..Len(s) : CharAt(s, i) = c}
    IN  IF hits = {} THEN 0 ELSE CHOOSE i \in hits : \A j \in hits : j <= i

DecDigits == "0123456789"

IsDigit(c) == \E i \in 1..10 : CharAt(DecDigits, i) = c

DigitVal(c) == (CHOOSE i \in 1..10 : CharAt(DecDigits, i) = c) - 1

AllDigits(s) == \A i \in 1..Len(s) : IsDigit(CharAt(s, i))

RECURSIVE DecVal(_)
DecVal(s) ==
    IF s = "" THEN 0
    ELSE DecVal(SubSeq(s, 1, Len(s) - 1)) * 10 + DigitVal(LastChar(s))

RECURSIVE StripZeros(_)
StripZeros(s) ==
    IF Len(s) > 1 /\ CharAt(s, 1) = "0" THEN StripZeros(Tail(s)) ELSE s

\* a <= b for digit strings of the same length
RECURSIVE DigitsLeq(_, _)
DigitsLeq(a, b) ==
    IF a = "" THEN TRUE
    ELSE IF DigitVal(CharAt(a, 1)) # DigitVal(CharAt(b, 1))
         THEN DigitVal(CharAt(a, 1)) < DigitVal(CharAt(b, 1))
         ELSE DigitsLeq(Tail(a), Tail(b))

\* u32::MAX in decimal
U32MaxDigits == "4294967295"

FitsU32(digits) ==
    LET d == StripZeros(digits)
    IN  \/ Len(d) < Len(U32MaxDigits)
        \/ Len(d) = Len(U32MaxDigits) /\ DigitsLeq(d, U32MaxDigits)

NoneVal == [some |-> FALSE]
Some(v) == [some |-> TRUE, val |-> v]

\* str::parse::<u32>: an optional '+', then one or more decimal digits, the
\* value at most u32::MAX; anything else is an error (None here).
ParseU32(s) ==
    LET digits == IF Len(s) >= 1 /\ CharAt(s, 1) = "+" THEN Tail(s) ELSE s
    IN  IF digits = "" \/ ~AllDigits(digits) \/ ~FitsU32(digits)
        THEN NoneVal
        ELSE Some(DecVal(digits))

----------------------------------------------------------------------------
(* FuncName *)

Undecorated(text) == [tag |-> "Undecorated", name |-> text, sps |-> 0]
Unknown(name, sps) == [tag |-> "Unknown", name |-> name, sps |-> sps]
Panic == [tag |-> "Panic"]
Err == [tag |-> "Err"]
Diverge == [tag |-> "Diverge"]
Ok(v) == [tag |-> "Ok", val |-> v]

\* FastcallSps without the floor at 0
FastcallSps_NoFloor(stack_param_size) == stack_param_size - 8

\* __fastcall: the two first args are put in ECX and EDX
FastcallSps(stack_param_size) ==
    IF stack_param_size > 8 THEN stack_param_size - 8 ELSE 0

\* sub.rsplitn(2, '@'): <<text after the last '@', text before it>>, or
\* <<sub>> when sub holds no '@'
RSplitN2(sub, c) ==
    LET k == LastIndexOf(sub, c)
    IN  IF k = 0 THEN <<sub>>
        ELSE <<SubSeq(sub, k + 1, Len(sub)), SubSeq(sub, 1, k - 1)>>

\* FuncName::get_unknown
get_unknown(name) ==
    IF name = "" THEN Unknown(name, 0)
    ELSE IF Utf8Len(CharAt(name, 1)) # 1 THEN Panic  \* split_at(1) inside a character
    ELSE
        LET first == CharAt(name, 1)
            sub == Tail(name)
            parts == RSplitN2(sub, "@")
            stripped == IF first = "_" THEN sub ELSE name
        IN  IF (first # "_" /\ first # "@") \/ ContainsAny(sub, {":", "("})
            THEN Unknown(name, 0)
            ELSE IF Len(parts) <= 1 THEN Unknown(stripped, 0)
            ELSE LET parsed == ParseU32(parts[1])
                 IN  IF parsed.some
                     THEN Unknown(parts[2],
                                  IF first = "@" THEN FastcallSps(parsed.val)
                                  ELSE parsed.val)
                     ELSE Unknown(stripped, 0)

----------------------------------------------------------------------------
(* Inputs: names *)

NameAlphabet == {"_", "@", ":", "(", "f", "3", "9", "+", "~"}

RECURSIVE NamesUpTo(_)
NamesUpTo(n) ==
    IF n = 0 THEN {""}
    ELSE LET shorter == NamesUpTo(n - 1)
         IN  shorter \cup {s \o c : s \in shorter, c \in NameAlphabet}

\* The names of tests::test_funcname_sps and tests::test_funcname, and two
\* names around u32::MAX.
FixtureNames ==
    {"_foo@123", "@foo@123", "@foo@3", "_foo@123()", "_foo@", "_foo",
     "_foo@bar", "foobar", "@foobar", "_f@4294967296", "@f@04294967296",
     "_f@0000000012"}

Names == NamesUpTo(MaxNameLen) \cup FixtureNames

----------------------------------------------------------------------------
(* Specification of the decoration parser alone: FuncName::get_unknown is  *)
(* an associated function, callable without a TypeDumper.                  *)

NoCall == [op |-> "none"]
NoWalk == [op |-> "none"]
Pending == [tag |-> "Pending"]

\* The caller's argument is chosen up front; GetUnknown applies the function.
InitUnknown ==
    /\ types = <<>>
    /\ scanned = 0
    /\ fwd = <<>>
    /\ ptr_size = 4
    /\ pc = "none"
    /\ call \in {[op |-> "get_unknown", name |-> n] : n \in Names}
    /\ result = Pending
    /\ walk = NoWalk

GetUnknown ==
    /\ call.op = "get_unknown"
    /\ result = Pending
    /\ result' = get_unknown(call.name)
    /\ UNCHANGED <<types, scanned, fwd, ptr_size, pc, call, walk>>

NextUnknown == GetUnknown

SpecUnknown == InitUnknown /\ [][NextUnknown]_vars

----------------------------------------------------------------------------
(* Type records: pdb::TypeData as this file reads it *)

Primitive(prim, indirection) ==
    [kind |-> "Primitive", prim |-> prim, indirection |-> indirection]
Class(ckind, name, unique_name, forward_reference, size) ==
    [kind |-> "Class", ckind |-> ckind, name |-> name, unique_name |-> unique_name,
     forward_reference |-> forward_reference, size |-> size]
Union(name, unique_name, forward_reference, size) ==
    [kind |-> "Union", name |-> name, unique_name |-> unique_name,
     forward_reference |-> forward_reference, size |-> size]
\* PointerAttributes: size() in bytes, pointer_mode(), is_const()
PointerAttributes(size, mode, const) == [size |-> size, mode |-> mode, const |-> const]
Pointer(underlying_type, attributes) ==
    [kind |-> "Pointer", underlying_type |-> underlying_type, attributes |-> attributes]
Array(element_type, dimensions) ==
    [kind |-> "Array", element_type |-> element_type, dimensions |-> dimensions]
\* FunctionAttributes: is_constructor(), cxx_return_udt()
FunctionAttributes(is_constructor, cxx_return_udt) ==
    [is_constructor |-> is_constructor, cxx_return_udt |-> cxx_return_udt]
Procedure(return_type, attributes, argument_list) ==
    [kind |-> "Procedure", return_type |-> return_type, attributes |-> attributes,
     argument_list |-> argument_list]
MemberFunction(return_type, class_type, this_pointer_type, attributes, argument_list) ==
    [kind |-> "MemberFunction", return_type |-> return_type, class_type |-> class_type,
     this_pointer_type |-> this_pointer_type, attributes |-> attributes,
     argument_list |-> argument_list]
Modifier(underlying_type, constant) ==
    [kind |-> "Modifier", underlying_type |-> underlying_type, constant |-> constant]
Enumeration(name, underlying_type) ==
    [kind |-> "Enumeration", name |-> name, underlying_type |-> underlying_type]
\* value: the Variant that holds the enumerator's literal ("I8" .. "U64")
Enumerate(name, value) == [kind |-> "Enumerate", name |-> name, value |-> value]
ArgumentList(arguments) == [kind |-> "ArgumentList", arguments |-> arguments]
\* a TypeData variant this file has no arm for (FieldList, Bitfield, ...)
Other(debug) == [kind |-> "Other", debug |-> debug]
\* a record of the stream whose parse() fails
Unparsable == [kind |-> "Unparsable"]

----------------------------------------------------------------------------
(* Type indexes.  Indexes below 0x1000 denote primitive types and are      *)
(* decoded from the index itself; the records of the stream are numbered   *)
(* from 0x1000 in scan order.  TypeIndex(0) is the "no type" sentinel.     *)

TypeIndexOf(pos) == 4096 + (pos - 1)

PosOf(index) == index - 4096 + 1

\* T_NOTYPE, T_VOID, T_INT4, T_64PINT4
PrimitiveIndexes == {0, 3, 116, 1652}

PrimitiveOf(index) ==
    CASE index = 0 -> Primitive("NoType", FALSE)
      [] index = 3 -> Primitive("Void", FALSE)
      [] index = 116 -> Primitive("I32", FALSE)
      [] index = 1652 -> Primitive("I32", TRUE)

\* self.finder.find(index): the finder knows the primitive indexes and every
\* record of the stream TypeDumper::new has passed
FinderFind(index) ==
    IF index \in PrimitiveIndexes THEN Some(PrimitiveOf(index))
    ELSE IF PosOf(index) \in 1..scanned THEN Some(types[PosOf(index)])
    ELSE NoneVal

\* typ.parse()
Parse(item) == IF item.kind = "Unparsable" THEN Err ELSE Ok(item)

\* TypeDumper::find
find(index) ==
    LET typ == FinderFind(index)
    IN  IF ~typ.some THEN Panic  \* unwrap() of Err
        ELSE Parse(typ.val)

----------------------------------------------------------------------------
(* TypeDumper::new *)

\* the display name taken whether there is a unique name or not
LinkageName_DisplayName(t) == t.name

\* the name under which a Class or Union is entered in, and looked up from,
\* the forward-reference table
LinkageName(t) == IF t.unique_name.some THEN t.unique_name.val ELSE t.name

\* FxHashMap::insert
MapInsert(map, key, value) ==
    [k \in DOMAIN map \cup {key} |-> IF k = key THEN value ELSE map[k]]

\* FxHashMap::insert that keeps the entry already there
MapInsert_KeepFirst(map, key, value) ==
    [k \in DOMAIN map \cup {key} |-> IF k \in DOMAIN map THEN map[k] ELSE value]

\* fwd.insert(name, size)
FwdInsert(map, key, value) == MapInsert(map, key, value)

\* One iteration of the while loop of TypeDumper::new.
Scan ==
    /\ pc = "new"
    /\ scanned < Len(types)
    /\ LET typ == Parse(types[scanned + 1])
       IN  fwd' = IF /\ typ.tag = "Ok"
                     /\ typ.val.kind \in {"Class", "Union"}
                     /\ ~typ.val.forward_reference
                  THEN FwdInsert(fwd, LinkageName(typ.val), typ.val.size)
                  ELSE fwd
    /\ scanned' = scanned + 1
    /\ UNCHANGED <<types, ptr_size, pc, call, result, walk>>

\* The stream is exhausted: Ok(Self { finder, fwd, ptr_size })
Finish ==
    /\ pc = "new"
    /\ scanned = Len(types)
    /\ pc' = "ready"
    /\ UNCHANGED <<types, scanned, fwd, ptr_size, call, result, walk>>

----------------------------------------------------------------------------
(* Size calculator *)

\* A chain of n records without a repeated index visits at most n records
\* and one primitive.  The code keeps no depth counter: a walk that goes
\* deeper has come back to an index it already visited and, every step being
\* a function of the index alone, never ends.
MaxWalk == Len(types) + 1

PrimitiveSize(prim) ==
    CASE prim \in {"NoType", "Void"} -> 0
      [] prim \in {"Char", "UChar", "RChar", "I8", "U8", "Bool8"} -> 1
      [] prim \in {"WChar", "RChar16", "I16", "U16", "F16", "Bool16"} -> 2
      [] prim \in {"RChar32", "I32", "U32", "F32", "F32PP", "Bool32", "HRESULT"} -> 4
      [] prim \in {"I64", "U64", "F64", "Complex32", "Bool64"} -> 8
      [] prim \in {"I128", "U128", "F128", "Complex64"} -> 16
      [] prim = "F48" -> 6
      [] prim = "F80" -> 10
      [] prim = "Complex80" -> 20
      [] prim = "Complex128" -> 32

VariantSize(value) ==
    CASE value \in {"I8", "U8"} -> 1
      [] value \in {"I16", "U16"} -> 2
      [] value \in {"I32", "U32"} -> 4
      [] value \in {"I64", "U64"} -> 8

\* the forward-reference arm of get_class_size and of get_union_size
FwdSize(typ) ==
    IF LinkageName(typ) \in DOMAIN fwd
    THEN Ok(fwd[LinkageName(typ)])
    ELSE Panic  \* unwrap() of None

\* TypeDumper::get_class_size
get_class_size(typ) ==
    IF typ.forward_reference THEN FwdSize(typ) ELSE Ok(typ.size)

\* TypeDumper::get_union_size
get_union_size(typ) ==
    IF typ.forward_reference THEN FwdSize(typ) ELSE Ok(typ.size)

\* function types sized as on the other target
FunctionTypeSize_OtherTarget == 12 - ptr_size

\* the MemberFunction and Procedure arms of get_data_size
FunctionTypeSize == ptr_size

\* the Pointer arm of get_data_size
PointerSize(t) == t.attributes.size

\* the Array arm of get_data_size
ArraySize(t) ==
    IF t.dimensions = <<>> THEN Panic  \* unwrap() of None
    ELSE Ok(t.dimensions[Len(t.dimensions)])

RECURSIVE get_type_size_at(_, _)
RECURSIVE get_data_size_at(_, _)

\* TypeDumper::get_data_size, called at nesting depth `depth`
get_data_size_at(depth, typ) ==
    CASE typ.kind = "Primitive" ->
            IF typ.indirection THEN Ok(ptr_size) ELSE Ok(PrimitiveSize(typ.prim))
      [] typ.kind = "Class" -> get_class_size(typ)
      [] typ.kind \in {"MemberFunction", "Procedure"} -> Ok(FunctionTypeSize)
      [] typ.kind = "Pointer" -> Ok(PointerSize(typ))
      [] typ.kind = "Array" -> ArraySize(typ)
      [] typ.kind = "Union" -> get_union_size(typ)
      [] typ.kind = "Enumeration" -> get_type_size_at(depth + 1, typ.underlying_type)
      [] typ.kind = "Enumerate" -> Ok(VariantSize(typ.value))
      [] typ.kind = "Modifier" -> get_type_size_at(depth + 1, typ.underlying_type)
      [] OTHER -> Ok(0)

\* TypeDumper::get_type_size, called at nesting depth `depth`
get_type_size_at(depth, index) ==
    IF depth > MaxWalk THEN Diverge
    ELSE LET typ == find(index)
         IN  IF typ.tag = "Panic" THEN Panic
             ELSE IF typ.tag = "Ok" THEN get_data_size_at(depth, typ.val)
             ELSE Ok(0)

get_type_size(index) == get_type_size_at(1, index)

get_data_size(typ) == get_data_size_at(1, typ)

----------------------------------------------------------------------------
(* Type printer and signature builder *)

PrimitiveName(prim) ==
    CASE prim = "NoType" -> "<NoType>"
      [] prim = "Void" -> "void"
      [] prim \in {"Char", "I8"} -> "signed char"
      [] prim \in {"UChar", "U8"} -> "unsigned char"
      [] prim = "RChar" -> "char"
      [] prim = "WChar" -> "wchar_t"
      [] prim = "RChar16" -> "char16_t"
      [] prim = "RChar32" -> "char32_t"
      [] prim = "I16" -> "short"
      [] prim = "U16" -> "unsigned short"
      [] prim = "I32" -> "int"
      [] prim = "U32" -> "unsigned int"
      [] prim = "I64" -> "long long"
      [] prim = "U64" -> "unsigned long long"
      [] prim = "I128" -> "int128_t"
      [] prim = "U128" -> "uint128_t"
      [] prim = "F16" -> "float16_t"
      [] prim \in {"F32", "F32PP"} -> "float"
      [] prim = "F48" -> "float48_t"
      [] prim = "F64" -> "double"
      [] prim \in {"F80", "F128"} -> "long double"
      [] prim = "Complex32" -> "complex<float>"
      [] prim = "Complex64" -> "complex<double>"
      [] prim \in {"Complex80", "Complex128"} -> "complex<long double>"
      [] prim = "Bool8" -> "bool"
      [] prim = "Bool16" -> "bool16_t"
      [] prim = "Bool32" -> "bool32_t"
      [] prim = "Bool64" -> "bool64_t"
      [] prim = "HRESULT" -> "HRESULT"

\* ClassKind::Class, Interface, Struct
ClassKindName(ckind) == ckind

\* TypeDumper::fix_return
fix_return(name) == IF name # "" THEN name \o " " ELSE name

PointerModeText(mode) ==
    CASE mode = "Pointer" -> "*"
      [] mode = "LValueReference" -> "&"
      [] mode = "Member" -> "::*"
      [] mode = "MemberFunction" -> "::"
      [] mode = "RValueReference" -> "&&"

\* str::trim_start
RECURSIVE TrimStart(_)
TrimStart(s) == IF s # "" /\ CharAt(s, 1) = " " THEN TrimStart(Tail(s)) ELSE s

RECURSIVE FoldAttributes(_, _)
FoldAttributes(buf, attrs) ==
    IF attrs = <<>> THEN buf
    ELSE LET attr == Head(attrs)
         IN  FoldAttributes(buf \o (IF attr.const THEN " const " ELSE "")
                                \o PointerModeText(attr.mode),
                            Tail(attrs))

\* TypeDumper::dump_attributes
dump_attributes(attrs) == TrimStart(FoldAttributes("", attrs))

\* the text of an unrecognised record kind
Unhandled(typ) == "unhandled type /* " \o typ.debug \o " */"

\* one bracket group of dump_array: x / size in u32 arithmetic
Extent(x, size) == x \div size

\* the bracket groups of dump_array for the dimensions taken innermost
\* first (dims.iter().rev()), `size` the size of what the first one wraps;
\* the groups come back outermost first. A division by zero aborts.
RECURSIVE ArrayGroups(_, _)
ArrayGroups(rdims, size) ==
    IF rdims = <<>> THEN Ok("")
    ELSE IF size = 0 THEN Panic
    ELSE LET rest == ArrayGroups(Tail(rdims), Head(rdims))
         IN  IF rest.tag # "Ok" THEN rest
             ELSE Ok(rest.val \o "[" \o ToString(Extent(Head(rdims), size)) \o "]")

\* dims.iter().rev()
Reverse(seq) == [i \in 1..Len(seq) |-> seq[Len(seq) + 1 - i]]

RECURSIVE dump_index_at(_, _)
RECURSIVE dump_data_at(_, _)
RECURSIVE dump_arguments_at(_, _)
RECURSIVE dump_ptr_at(_, _, _)
RECURSIVE dump_ptr_end_at(_, _, _)
RECURSIVE get_array_info_at(_, _, _)
RECURSIVE dump_procedure_parts_at(_, _)
RECURSIVE dump_method_parts_at(_, _)
RECURSIVE dump_array_at(_, _)

\* TypeDumper::dump_procedure_parts: Ok(<<ret, args>>)
dump_procedure_parts_at(depth, typ) ==
    LET ret_typ ==
            IF typ.return_type.some
            THEN IF typ.attributes.is_constructor \/ typ.attributes.cxx_return_udt
                 THEN Ok("")
                 ELSE dump_index_at(depth + 1, typ.return_type.val)
            ELSE Ok("")
    IN  IF ret_typ.tag # "Ok" THEN ret_typ
        ELSE LET args_typ == dump_index_at(depth + 1, typ.argument_list)
             IN  IF args_typ.tag # "Ok" THEN args_typ
                 ELSE Ok(<<ret_typ.val, args_typ.val>>)

\* TypeDumper::check_this_type
check_this_type(this, class) ==
    LET typ == find(this)
    IN  IF typ.tag # "Ok" THEN typ
        ELSE Ok(typ.val.kind = "Pointer" /\ typ.val.underlying_type = class)

\* `this` left out of the argument text
ExplicitThis_Dropped(this_typ, args_typ) == args_typ

\* the argument text of a method whose `this` is not a pointer to its class
ExplicitThis(this_typ, args_typ) ==
    IF args_typ = "" THEN this_typ ELSE this_typ \o ", " \o args_typ

\* TypeDumper::dump_method_parts: Ok(<<ztatic, ret, args>>)
dump_method_parts_at(depth, typ) ==
    LET attrs == typ.attributes
        ret_typ == IF attrs.is_constructor \/ attrs.cxx_return_udt
                   THEN Ok("")
                   ELSE dump_index_at(depth + 1, typ.return_type)
    IN  IF ret_typ.tag # "Ok" THEN ret_typ
        ELSE
        LET args_typ == dump_index_at(depth + 1, typ.argument_list)
        IN  IF args_typ.tag # "Ok" THEN args_typ
            ELSE
            LET ztatic == ~typ.this_pointer_type.some
            IN  IF ztatic THEN Ok(<<ztatic, ret_typ.val, args_typ.val>>)
                ELSE
                LET this_typ == typ.this_pointer_type.val
                    same == check_this_type(this_typ, typ.class_type)
                IN  IF same.tag # "Ok" THEN same
                    ELSE IF same.val THEN Ok(<<ztatic, ret_typ.val, args_typ.val>>)
                    ELSE LET this_txt == dump_index_at(depth + 1, this_typ)
                         IN  IF this_txt.tag # "Ok" THEN this_txt
                             ELSE Ok(<<ztatic, ret_typ.val,
                                       ExplicitThis(this_txt.val, args_typ.val)>>)

\* "{}({})({})" of a pointer to a function type
FunctionPointerText(ret, attrs, args) ==
    fix_return(ret) \o "(" \o attrs \o ")(" \o args \o ")"

\* the last arm of dump_ptr: the pointee's text, then the attributes
DataPointerText(typ, attrs) ==
    IF typ = "" THEN Panic  \* unwrap() of chars().last() == None
    ELSE IF LastChar(typ) \in {"*", "&"} THEN Ok(typ \o attrs)
    ELSE Ok(typ \o " " \o attrs)

\* the arms of dump_ptr that leave the loop, each from the parts or the text
\* of the pointee
MethodPointer(parts, attributes) ==
    IF parts.tag # "Ok" THEN parts
    ELSE Ok(FunctionPointerText(parts.val[2], dump_attributes(attributes),
                                parts.val[3]))

ProcedurePointer(parts, attributes) ==
    IF parts.tag # "Ok" THEN parts
    ELSE Ok(FunctionPointerText(parts.val[1], dump_attributes(attributes),
                                parts.val[2]))

DataPointer(text, attributes) ==
    IF text.tag # "Ok" THEN text
    ELSE DataPointerText(text.val, dump_attributes(attributes))

\* TypeDumper::dump_ptr once the loop has found the record `typ` that is not
\* a Pointer
dump_ptr_end_at(depth, typ, attributes) ==
    CASE typ.kind = "MemberFunction" ->
            MethodPointer(dump_method_parts_at(depth, typ), attributes)
      [] typ.kind = "Procedure" ->
            ProcedurePointer(dump_procedure_parts_at(depth, typ), attributes)
      [] OTHER -> DataPointer(dump_data_at(depth, typ), attributes)

\* TypeDumper::dump_ptr: the loop, entered with the pointer `ptr` and the
\* attributes collected so far
dump_ptr_at(depth, ptr, attributes) ==
    IF depth > MaxWalk THEN Diverge
    ELSE
    LET typ == find(ptr.underlying_type)
    IN  IF typ.tag # "Ok" THEN typ
        ELSE IF typ.val.kind = "Pointer"
             THEN dump_ptr_at(depth + 1, typ.val,
                              Append(attributes, typ.val.attributes))
             ELSE dump_ptr_end_at(depth, typ.val, attributes)

\* TypeDumper::get_array_info: the loop, entered with the array `base` and
\* the dimensions collected so far: Ok(<<dims, element type>>)
get_array_info_at(depth, base, dims) ==
    IF depth > MaxWalk THEN Diverge
    ELSE
    LET typ == find(base.element_type)
    IN  IF typ.tag # "Ok" THEN typ
        ELSE IF typ.val.kind = "Array"
             THEN IF typ.val.dimensions = <<>> THEN Panic  \* dimensions[0]
                  ELSE get_array_info_at(depth + 1, typ.val,
                                         Append(dims, typ.val.dimensions[1]))
             ELSE Ok(<<dims, typ.val, depth>>)

\* TypeDumper::dump_array
dump_array_at(depth, array) ==
    IF array.dimensions = <<>> THEN Panic  \* dimensions[0]
    ELSE
    LET info == get_array_info_at(depth + 1, array, <<array.dimensions[1]>>)
    IN  IF info.tag # "Ok" THEN info
        ELSE
        LET dimensions == info.val[1]
            base == info.val[2]
            base_depth == info.val[3]
            base_size == get_data_size_at(base_depth, base)
        IN  IF base_size.tag # "Ok" THEN base_size
            ELSE
            LET dims == ArrayGroups(Reverse(dimensions), base_size.val)
            IN  IF dims.tag # "Ok" THEN dims
                ELSE LET base_typ == dump_data_at(base_depth, base)
                     IN  IF base_typ.tag # "Ok" THEN base_typ
                         ELSE Ok(base_typ.val \o dims.val)

\* the ArgumentList arm of dump_data: each argument in turn, ", " between
dump_arguments_at(depth, arguments) ==
    IF arguments = <<>> THEN Ok("")
    ELSE LET typ == dump_index_at(depth + 1, Head(arguments))
         IN  IF typ.tag # "Ok" THEN typ
             ELSE IF Len(arguments) = 1 THEN typ
             ELSE LET rest == dump_arguments_at(depth, Tail(arguments))
                  IN  IF rest.tag # "Ok" THEN rest
                      ELSE Ok(typ.val \o ", " \o rest.val)

\* TypeDumper::dump_data for a record found at nesting depth `depth`
dump_data_at(depth, typ) ==
    CASE typ.kind = "Primitive" ->
            Ok(PrimitiveName(typ.prim) \o (IF typ.indirection THEN " *" ELSE ""))
      [] typ.kind = "Class" -> Ok(ClassKindName(typ.ckind) \o " " \o typ.name)
      [] typ.kind = "MemberFunction" ->
            LET parts == dump_method_parts_at(depth, typ)
            IN  IF parts.tag # "Ok" THEN parts
                ELSE Ok(fix_return(parts.val[2]) \o "()(" \o parts.val[3] \o ")")
      [] typ.kind = "Procedure" ->
            LET parts == dump_procedure_parts_at(depth, typ)
            IN  IF parts.tag # "Ok" THEN parts
                ELSE Ok(fix_return(parts.val[1]) \o "()(" \o parts.val[2] \o ")")
      [] typ.kind = "ArgumentList" -> dump_arguments_at(depth, typ.arguments)
      [] typ.kind = "Pointer" -> dump_ptr_at(depth + 1, typ, <<typ.attributes>>)
      [] typ.kind = "Array" -> dump_array_at(depth, typ)
      [] typ.kind = "Union" -> Ok("union " \o typ.name)
      [] typ.kind = "Enumeration" -> Ok("enum " \o typ.name)
      [] typ.kind = "Enumerate" -> Ok("enum class " \o typ.name)
      [] typ.kind = "Modifier" ->
            LET underlying_typ == dump_index_at(depth + 1, typ.underlying_type)
            IN  IF underlying_typ.tag # "Ok" THEN underlying_typ
                ELSE IF typ.constant THEN Ok("const " \o underlying_typ.val)
                ELSE underlying_typ
      [] OTHER -> Ok(Unhandled(typ))

\* TypeDumper::dump_index at nesting depth `depth`
dump_index_at(depth, index) ==
    IF depth > MaxWalk THEN Diverge
    ELSE LET typ == find(index)
         IN  IF typ.tag # "Ok" THEN typ
             ELSE dump_data_at(depth, typ.val)

dump_index(index) == dump_index_at(1, index)

----------------------------------------------------------------------------
(* Name resolution *)

\* What symbolic's language detection and demangler answer for a name is
\* outside this file: lang is "Unknown" or a language ("Cpp"), demangled is
\* "none" (no output), "same" (the input back) or "other" (another text).
DemangleOutcomes == {"none", "same", "other"}

DemangledText(ident) == ident \o "(void)"

\* TypeDumper::demangle
demangle(ident, lang, demangled) ==
    IF lang = "Unknown" THEN get_unknown(ident)
    ELSE CASE demangled = "same" -> get_unknown(ident)
           [] demangled = "other" -> Undecorated(DemangledText(ident))
           [] demangled = "none" -> Undecorated(ident)

\* the arms of dump_function tested with the type index first
FunctionArm_IndexFirst(name, index) ==
    IF index = 0 THEN "demangle"
    ELSE IF name = "" THEN "omitted"
    ELSE "signature"

\* the arm of dump_function that runs: only "signature" looks the index up,
\* only "demangle" calls the demangler and the heuristic parser
FunctionArm(name, index) ==
    IF name = "" THEN "omitted"
    ELSE IF index = 0 THEN "demangle"
    ELSE "signature"

\* what dump_function calls on its way: only the "signature" arm looks the
\* index up; Self::demangle detects the language, asks the demangler when
\* one is detected, and goes to get_unknown when none is or when the
\* demangler gives the identifier back
FunctionCalls(name, index, lang, demangled) ==
    CASE FunctionArm(name, index) = "omitted" -> {}
      [] FunctionArm(name, index) = "signature" -> {"find"}
      [] FunctionArm(name, index) = "demangle" ->
            {"detect_language"}
            \cup (IF lang = "Unknown" THEN {"get_unknown"} ELSE {"demangle"})
            \cup (IF lang # "Unknown" /\ demangled = "same"
                  THEN {"get_unknown"} ELSE {})

\* "{}{}{}({})" of a MemberFunction, "{}{}({})" of a Procedure
SignatureText(ztatic, ret, name, args) ==
    (IF ztatic THEN "static " ELSE "") \o fix_return(ret) \o name \o "(" \o args \o ")"

\* the FuncName built from the parts of a MemberFunction
MethodSignature(name, parts) ==
    IF parts.tag # "Ok" THEN parts
    ELSE Undecorated(SignatureText(parts.val[1], parts.val[2], name, parts.val[3]))

\* the FuncName built from the parts of a Procedure
ProcedureSignature(name, parts) ==
    IF parts.tag # "Ok" THEN parts
    ELSE Undecorated(SignatureText(FALSE, parts.val[1], name, parts.val[2]))

\* the "signature" arm of dump_function, for the record found at the index
FunctionSignature(name, typ) ==
    CASE typ.kind = "MemberFunction" ->
            MethodSignature(name, dump_method_parts_at(1, typ))
      [] typ.kind = "Procedure" ->
            ProcedureSignature(name, dump_procedure_parts_at(1, typ))
      [] OTHER -> Undecorated(name)

\* TypeDumper::dump_function: Ok(FuncName) is the FuncName itself
dump_function(name, index, lang, demangled) ==
    LET arm == FunctionArm(name, index)
    IN  CASE arm = "omitted" -> Undecorated("<name omitted>")
          [] arm = "demangle" -> demangle(name, lang, demangled)
          [] arm = "signature" ->
                LET typ == find(index)
                IN  IF typ.tag # "Ok" THEN typ
                    ELSE FunctionSignature(name, typ.val)

----------------------------------------------------------------------------
(* Queries on a constructed TypeDumper *)

NoResult == [tag |-> "None"]

\* the indexes a caller asks about: the primitives, every record of the
\* stream, and the first index past the stream
QueryIndexes == PrimitiveIndexes \cup {TypeIndexOf(i) : i \in 1..(Len(types) + 1)}

\* A query is made of a constructed dumper by a caller that is not waiting
\* for another one.
Idle == pc = "ready" /\ call = NoCall

GetTypeSize ==
    /\ Idle
    /\ \E index \in QueryIndexes :
        /\ call' = [op |-> "get_type_size", index |-> index]
        /\ result' = get_type_size(index)
    /\ UNCHANGED <<types, scanned, fwd, ptr_size, pc, walk>>

\* The caller takes the value or the error the query returned; an aborted
\* or never-ending query returns nothing.
Return ==
    /\ pc = "ready"
    /\ call # NoCall
    /\ result.tag \notin {"None", "Panic", "Diverge"}
    /\ call' = NoCall
    /\ result' = NoResult
    /\ UNCHANGED <<types, scanned, fwd, ptr_size, pc, walk>>

\* every stream of at most n records drawn from `universe`
Streams(universe, n) == UNION {[1..k -> universe] : k \in 0..n}

\* the indexes a record may refer to: int, and any position of the stream
RefIndexes == {116} \cup {TypeIndexOf(i) : i \in 1..MaxTypes}

\* the stream positions the records of the printing universes refer to
RefPositions == 1..(MaxTypes - 1)

DumpIndex ==
    /\ Idle
    /\ \E index \in QueryIndexes :
        /\ call' = [op |-> "dump_index", index |-> index]
        /\ result' = dump_index(index)
    /\ UNCHANGED <<types, scanned, fwd, ptr_size, pc, walk>>

\* the names resolve_name is asked about
FunctionNames == {"", "f", "_f", "_f@9", "@f@9", "@f@3", "_f@", "~f", "f~"}

\* the answers of the language detection and of the demangler, where they
\* are consulted
NotConsulted == [lang |-> "n/a", demangled |-> "n/a"]
DemangleAnswers ==
    {[lang |-> "Unknown", demangled |-> "n/a"]}
    \cup {[lang |-> "Cpp", demangled |-> d] : d \in DemangleOutcomes}

DumpFunction ==
    /\ Idle
    /\ \E name \in FunctionNames, index \in QueryIndexes :
        \E answer \in (IF FunctionArm(name, index) = "demangle"
                        THEN DemangleAnswers ELSE {NotConsulted}) :
            /\ call' = [op |-> "dump_function", name |-> name, index |-> index,
                        lang |-> answer.lang, demangled |-> answer.demangled,
                        arm |-> FunctionArm(name, index),
                        calls |-> FunctionCalls(name, index, answer.lang,
                                                answer.demangled)]
            /\ result' = dump_function(name, index, answer.lang, answer.demangled)
    /\ UNCHANGED <<types, scanned, fwd, ptr_size, pc, walk>>

InitDumper(universe) ==
    /\ types \in Streams(universe, MaxTypes)
    /\ scanned = 0
    /\ fwd = <<>>
    /\ ptr_size \in {4, 8}
    /\ pc = "new"
    /\ call = NoCall
    /\ result = NoResult
    /\ walk = NoWalk

----------------------------------------------------------------------------
(* Specification of the forward-reference table: streams of Class and      *)
(* Union records, defining and forward-declared, with and without a unique *)
(* name.                                                                   *)

FwdUniverse ==
    {Class("class", "A", NoneVal, FALSE, 2),
     Class("class", "A", NoneVal, FALSE, 3),
     Class("struct", "B", Some("A"), FALSE, 4),
     Class("class", "A", Some("?A"), FALSE, 6),
     Class("class", "A", NoneVal, TRUE, 0),
     Class("class", "A", Some("?A"), TRUE, 0),
     Union("A", NoneVal, FALSE, 5),
     Union("A", NoneVal, TRUE, 0),
     Union("B", Some("A"), TRUE, 0),
     Pointer(116, PointerAttributes(8, "Pointer", FALSE)),
     Unparsable}

InitFwd == InitDumper(FwdUniverse)

NextFwd == Scan \/ Finish \/ GetTypeSize \/ Return

SpecFwd == InitFwd /\ [][NextFwd]_vars

\* the same streams with every query of a constructed dumper
NextTable == Scan \/ Finish \/ GetTypeSize \/ DumpIndex \/ DumpFunction \/ Return

SpecTable == InitFwd /\ [][NextTable]_vars

----------------------------------------------------------------------------
(* Specification of the size calculator: streams over every record kind.   *)

SizeUniverse ==
    {Pointer(116, PointerAttributes(4, "Pointer", FALSE)),
     Pointer(116, PointerAttributes(8, "Pointer", FALSE)),
     Procedure(Some(116), FunctionAttributes(FALSE, FALSE), TypeIndexOf(1)),
     MemberFunction(116, TypeIndexOf(1), NoneVal, FunctionAttributes(FALSE, FALSE),
                    TypeIndexOf(1)),
     Array(116, <<>>),
     Array(116, <<8>>),
     Array(116, <<8, 12>>),
     Class("class", "A", NoneVal, FALSE, 2),
     Class("class", "A", NoneVal, TRUE, 0),
     Union("B", NoneVal, TRUE, 0),
     Enumerate("e", "U16"),
     Other("FieldList"),
     Unparsable}
    \cup {Enumeration("E", i) : i \in RefIndexes}
    \cup {Modifier(i, TRUE) : i \in RefIndexes \ {116}}

InitSize == InitDumper(SizeUniverse)

NextSize == Scan \/ Finish \/ GetTypeSize \/ Return

SpecSize == InitSize /\ [][NextSize]_vars

----------------------------------------------------------------------------
(* Specification of the type printer: streams of arrays, pointers,         *)
(* modifiers, argument lists, function types and unrecognised records.     *)

Ptr64 == PointerAttributes(8, "Pointer", FALSE)

PrintUniverse ==
    {Array(116, <<136>>),
     Array(116, <<0>>),
     Array(116, <<>>),
     Array(3, <<8>>),
     Pointer(116, Ptr64),
     Other("FieldList"),
     ArgumentList(<<>>),
     Unparsable}
    \cup {Array(TypeIndexOf(i), <<d>>) : i \in RefPositions, d \in {0, 1632, 4896}}
    \cup {Pointer(TypeIndexOf(i), PointerAttributes(8, "LValueReference", TRUE)) :
            i \in RefPositions}
    \cup {Modifier(TypeIndexOf(i), TRUE) : i \in RefPositions}
    \cup {ArgumentList(<<116, TypeIndexOf(i)>>) : i \in RefPositions}
    \cup {Procedure(Some(TypeIndexOf(i)), FunctionAttributes(FALSE, FALSE),
                    TypeIndexOf(1)) : i \in RefPositions}

InitPrint == InitDumper(PrintUniverse)

NextPrint == Scan \/ Finish \/ DumpIndex \/ Return

SpecPrint == InitPrint /\ [][NextPrint]_vars

----------------------------------------------------------------------------
(* Specification of name resolution: streams of function types and what    *)
(* their signatures refer to.                                              *)

PlainFunction == FunctionAttributes(FALSE, FALSE)

NameUniverse ==
    {ArgumentList(<<>>),
     ArgumentList(<<116>>),
     Pointer(116, Ptr64),
     Pointer(3, Ptr64),
     Class("class", "A", NoneVal, FALSE, 2),
     Procedure(Some(116), PlainFunction, TypeIndexOf(1)),
     Procedure(NoneVal, PlainFunction, TypeIndexOf(1)),
     MemberFunction(116, 116, NoneVal, PlainFunction, TypeIndexOf(1)),
     MemberFunction(3, 116, Some(TypeIndexOf(2)), PlainFunction, TypeIndexOf(1)),
     MemberFunction(3, 116, Some(TypeIndexOf(2)), FunctionAttributes(TRUE, FALSE),
                    TypeIndexOf(1)),
     Unparsable}

InitName == InitDumper(NameUniverse)

NextName == Scan \/ Finish \/ DumpFunction \/ Return

SpecName == InitName /\ [][NextName]_vars

----------------------------------------------------------------------------
(* The chain walks, one lookup at a time.  get_type_size follows the       *)
(* underlying type of an Enumeration or a Modifier by calling itself in    *)
(* tail position; the loop of dump_ptr follows the underlying type of a    *)
(* Pointer, pushing its attributes.  Neither counts its steps.             *)

\* the cap of the model on the lookups of one walk (the code has none)
WalkCap == MaxWalk + 2

\* the record at the index continues the walk
ContinuesWalk(op, typ) ==
    /\ typ.tag = "Ok"
    /\ \/ op = "get_type_size" /\ typ.val.kind \in {"Enumeration", "Modifier"}
       \/ op = "dump_ptr" /\ typ.val.kind = "Pointer"

\* what the query returns once the walk has left the chain at an index
WalkResult(op, next, attributes) ==
    IF op = "get_type_size" THEN get_type_size(next)
    ELSE IF find(next).tag # "Ok" THEN find(next)
    ELSE dump_ptr_end_at(1, find(next).val, attributes)

\* the walk after one more record of the chain
WalkOn(w, typ) ==
    [op |-> w.op,
     next |-> typ.underlying_type,
     attributes |-> IF w.op = "dump_ptr"
                    THEN Append(w.attributes, typ.attributes)
                    ELSE w.attributes,
     visited |-> Append(w.visited, w.next)]

\* get_type_size(index) is called, or dump_index(index) for a Pointer record
\* enters dump_ptr
WalkStart ==
    /\ Idle
    /\ walk = NoWalk
    /\ \E index \in QueryIndexes :
        \/ /\ call' = [op |-> "get_type_size", index |-> index]
           /\ walk' = [op |-> "get_type_size", next |-> index,
                       attributes |-> <<>>, visited |-> <<>>]
        \/ /\ find(index).tag = "Ok"
           /\ find(index).val.kind = "Pointer"
           /\ call' = [op |-> "dump_index", index |-> index]
           /\ walk' = [op |-> "dump_ptr", next |-> find(index).val.underlying_type,
                       attributes |-> <<find(index).val.attributes>>,
                       visited |-> <<index>>]
    /\ result' = NoResult
    /\ UNCHANGED <<types, scanned, fwd, ptr_size, pc>>

\* one lookup that finds a record the walk goes on from
WalkStep ==
    /\ walk # NoWalk
    /\ Len(walk.visited) < WalkCap
    /\ ContinuesWalk(walk.op, find(walk.next))
    /\ walk' = WalkOn(walk, find(walk.next).val)
    /\ UNCHANGED <<types, scanned, fwd, ptr_size, pc, call, result>>

\* the lookup that ends the walk: it fails, or finds a record of another kind
WalkEnd ==
    /\ walk # NoWalk
    /\ ~ContinuesWalk(walk.op, find(walk.next))
    /\ result' = WalkResult(walk.op, walk.next, walk.attributes)
    /\ walk' = NoWalk
    /\ UNCHANGED <<types, scanned, fwd, ptr_size, pc, call>>

WalkUniverse ==
    {Pointer(116, Ptr64),
     Modifier(116, TRUE),
     Class("class", "A", NoneVal, FALSE, 2),
     Unparsable}
    \cup {Pointer(i, PointerAttributes(8, "Pointer", TRUE)) : i \in RefIndexes \ {116}}
    \cup {Modifier(i, FALSE) : i \in RefIndexes \ {116}}
    \cup {Enumeration("E", i) : i \in RefIndexes}

InitWalk == InitDumper(WalkUniverse)

NextWalk == Scan \/ Finish \/ WalkStart \/ WalkStep \/ WalkEnd \/ Return

SpecWalk == InitWalk /\ [][NextWalk]_vars

----------------------------------------------------------------------------
(* Properties of FuncName::get_unknown *)

UnknownDone == call.op = "get_unknown" /\ result # Pending

\* The name is marker + base + '@' + N with marker '_' or '@', no ':' or '('
\* after the marker, the '@' at position k the last one, and N a u32.
IsDecoration(name, k) ==
    /\ Len(name) >= 2
    /\ CharAt(name, 1) \in {"_", "@"}
    /\ ~ContainsAny(Tail(name), {":", "("})
    /\ k \in 2..Len(name)
    /\ CharAt(name, k) = "@"
    /\ \A j \in (k + 1)..Len(name) : CharAt(name, j) # "@"
    /\ ParseU32(SubSeq(name, k + 1, Len(name))).some

Floor0(n) == IF n >= 0 THEN n ELSE 0

\* C1: for every name marker + base + '@' + N (marker '_' or '@', no ':' or
\* '(' after the marker, split at the last '@', N an unsigned 32-bit
\* integer) get_unknown returns Unknown(base, N) for marker '_' and
\* Unknown(base, max(N - 8, 0)) for marker '@': the size is never negative.
C1_DecoratedNameSize ==
    UnknownDone =>
        \A k \in 1..Len(call.name) :
            IsDecoration(call.name, k) =>
                LET base == SubSeq(call.name, 2, k - 1)
                    n == ParseU32(SubSeq(call.name, k + 1, Len(call.name))).val
                IN  /\ result.tag = "Unknown"
                    /\ result.name = base
                    /\ result.sps = IF CharAt(call.name, 1) = "_" THEN n
                                    ELSE Floor0(n - 8)
                    /\ result.sps >= 0

\* a fastcall name whose byte count is below 8 has been parsed
C1_Witness ==
    /\ UnknownDone
    /\ call.name = "@foo@3"
    /\ result = Unknown("foo", 0)

\* C2: for every non-empty name that is not a valid decoration get_unknown
\* returns size 0 and: the name unchanged when the first character is
\* neither '_' nor '@' or the rest holds ':' or '('; otherwise the rest
\* without the leading '_' for a '_' name, the whole name for an '@' name.
C2_NotDecorated ==
    (/\ UnknownDone
     /\ call.name # ""
     /\ \A k \in 1..Len(call.name) : ~IsDecoration(call.name, k))
    => LET name == call.name
           first == CharAt(name, 1)
       IN  result =
             IF first \notin {"_", "@"} \/ ContainsAny(Tail(name), {":", "("})
             THEN Unknown(name, 0)
             ELSE IF first = "_" THEN Unknown(Tail(name), 0)
             ELSE Unknown(name, 0)

\* C2 restricted to names whose first character is ASCII
C2_NotDecoratedAscii ==
    (call.op = "get_unknown" /\ call.name # ""
        /\ Utf8Len(CharAt(call.name, 1)) = 1) => C2_NotDecorated

----------------------------------------------------------------------------
(* Properties of the size calculator *)

SizeDone == call.op = "get_type_size"

\* the queried index is the record at position i of the stream
AsksRecord(i) == SizeDone /\ call.index = TypeIndexOf(i)

IsAggregate(i) == types[i].kind \in {"Class", "Union"}
DefiningAt(i) == IsAggregate(i) /\ ~types[i].forward_reference
ForwardAt(i) == IsAggregate(i) /\ types[i].forward_reference

\* the lookup of the queried index itself misses: the index is absent, the
\* record does not parse, it is a forward reference without a table entry,
\* or an Array without a dimension
ResolutionMiss(index) ==
    \/ index \notin PrimitiveIndexes /\ PosOf(index) \notin 1..Len(types)
    \/ /\ PosOf(index) \in 1..Len(types)
       /\ LET t == types[PosOf(index)]
          IN  \/ t.kind = "Unparsable"
              \/ /\ t.kind \in {"Class", "Union"}
                 /\ t.forward_reference
                 /\ \A i \in 1..Len(types) :
                        DefiningAt(i) => LinkageName(types[i]) # LinkageName(t)
              \/ t.kind = "Array" /\ t.dimensions = <<>>

\* C4: get_type_size never fails outward: every query returns a value, and
\* a query whose resolution misses (absent index, unparsable record, forward
\* reference without a table entry, Array without a dimension) returns 0.
C4_SizeNeverFails ==
    SizeDone =>
        /\ result.tag = "Ok"
        /\ ResolutionMiss(call.index) => result.val = 0

\* C5 as stated: with a defining and a forward-declared Class or Union of the
\* same name in the catalog, get_type_size returns the defining record's
\* size S for the index of either.
C5_RoundTrip ==
    \A i, j \in 1..Len(types) :
        (/\ DefiningAt(i) /\ ForwardAt(j)
         /\ LinkageName(types[i]) = LinkageName(types[j])
         /\ (AsksRecord(i) \/ AsksRecord(j)))
        => result = Ok(types[i].size)

\* no defining record after position i carries the linkage name of record i
LastDefinition(i) ==
    \A k \in (i + 1)..Len(types) :
        DefiningAt(k) => LinkageName(types[k]) # LinkageName(types[i])

\* C5 amended: get_type_size returns S for the defining record's index, and
\* for the forward-declared record's index the size of the last defining
\* Class or Union record with the same linkage name in scan order.
C5_RoundTripLast ==
    \A i, j \in 1..Len(types) :
        (/\ DefiningAt(i) /\ ForwardAt(j)
         /\ LinkageName(types[i]) = LinkageName(types[j]))
        => /\ AsksRecord(i) => result = Ok(types[i].size)
           /\ (AsksRecord(j) /\ LastDefinition(i)) => result = Ok(types[i].size)

\* a forward-declared record has been sized from an earlier definition that
\* a later definition of another size followed
C5_Witness ==
    \E i, j, k \in 1..Len(types) :
        /\ i < k /\ DefiningAt(i) /\ DefiningAt(k) /\ ForwardAt(j)
        /\ LinkageName(types[i]) = LinkageName(types[j])
        /\ LinkageName(types[k]) = LinkageName(types[j])
        /\ types[i].size # types[k].size
        /\ LastDefinition(k)
        /\ AsksRecord(j)
        /\ result = Ok(types[k].size)

IsFunctionType(i) == types[i].kind \in {"Procedure", "MemberFunction"}

\* C6 as stated: on a 64-bit target get_type_size returns 8 for every
\* Pointer, Procedure and MemberFunction record, whatever its attributes.
C6_PointerWidth8 ==
    \A i \in 1..Len(types) :
        (/\ ptr_size = 8
         /\ AsksRecord(i)
         /\ (IsFunctionType(i) \/ types[i].kind = "Pointer"))
        => result = Ok(8)

\* C6 amended: on a 64-bit target get_type_size returns 8 for every
\* Procedure and MemberFunction record, and for a Pointer record the byte
\* width its pointer attributes encode.
C6_FunctionWidth8 ==
    \A i \in 1..Len(types) :
        (ptr_size = 8 /\ AsksRecord(i)) =>
            /\ IsFunctionType(i) => result = Ok(8)
            /\ types[i].kind = "Pointer" => result = Ok(types[i].attributes.size)

\* a Procedure record and a 4-byte Pointer record sized on a 64-bit target
C6_Witness ==
    /\ ptr_size = 8
    /\ \E i \in 1..Len(types) :
        /\ AsksRecord(i)
        /\ types[i].kind = "Procedure"
        /\ result = Ok(8)
    /\ \E k \in 1..Len(types) :
        types[k].kind = "Pointer" /\ types[k].attributes.size = 4

----------------------------------------------------------------------------
(* Properties of name resolution *)

FunctionDone == call.op = "dump_function"

\* C3: dump_function called with an empty name returns
\* Undecorated("<name omitted>") for every type index (sentinel or not, in
\* the catalog or not) and does not look the index up.
C3_EmptyNameOmitted ==
    (FunctionDone /\ call.name = "") =>
        /\ result = Undecorated("<name omitted>")
        /\ call.arm = "omitted"

\* the empty name has been resolved with an index that is not in the catalog
C3_Witness ==
    /\ FunctionDone
    /\ call.name = ""
    /\ call.index = TypeIndexOf(Len(types) + 1)
    /\ result = Undecorated("<name omitted>")

\* C9: dump_function returns a FuncName (Undecorated or Unknown) for every
\* name and every type index, never an error or an abort; when the
\* heuristic parser is reached and finds no decoration, the name returned is
\* the original name or the original without its leading marker.
C9_NameNeverFails ==
    FunctionDone =>
        /\ result.tag \in {"Undecorated", "Unknown"}
        /\ (result.tag = "Unknown" /\ result.sps = 0 /\ call.name # ""
                /\ \A k \in 1..Len(call.name) : ~IsDecoration(call.name, k))
            => result.name \in {call.name, Tail(call.name)}

\* dump_function has gone through the heuristic parser, the demangler
ParserReached == "get_unknown" \in call.calls
DemanglerAsked == call.calls \cap {"detect_language", "demangle"} # {}

\* the conditions under which the parser may be reached
ParserDue ==
    /\ call.name # ""
    /\ call.index = 0
    /\ call.lang = "Unknown" \/ call.demangled = "same"

\* Unknown comes from the parser alone, the parser is reached only when due,
\* and a demangler asked on a sentinel index gives Undecorated(output) for an
\* output that differs and Undecorated(name) for none
ThroughParserOnly ==
    FunctionDone =>
        /\ result.tag = "Unknown" => ParserReached
        /\ ParserReached => ParserDue
        /\ (call.index = 0 /\ call.name # "" /\ call.lang # "Unknown") =>
              /\ call.demangled = "other" =>
                    result = Undecorated(DemangledText(call.name))
              /\ call.demangled = "none" => result = Undecorated(call.name)

\* C11: dump_function returns Unknown only through the heuristic parser,
\* reached only for a non-empty name with the sentinel index when no
\* language is detected or the demangler gives the input back; with a
\* non-sentinel index neither the demangler nor the parser is invoked and
\* the result is always Undecorated; with the sentinel index a differing
\* demangler output gives Undecorated(output), none gives Undecorated(name).
C11_UnknownOnlyByParser ==
    /\ ThroughParserOnly
    /\ (FunctionDone /\ call.index # 0) =>
          /\ ~ParserReached
          /\ ~DemanglerAsked
          /\ result.tag = "Undecorated"

\* C11 for the calls with a non-sentinel index that return a FuncName at all
UnknownOnlyByParserReturned ==
    /\ ThroughParserOnly
    /\ (FunctionDone /\ call.index # 0) =>
          /\ ~ParserReached
          /\ ~DemanglerAsked
          /\ result.tag \in {"Undecorated", "Unknown"} => result.tag = "Undecorated"

\* the parser has been reached after a demangler that gave the name back,
\* and a signature has been built for a decorated name
ParserReachedAfterDemangler ==
    /\ FunctionDone
    /\ call.lang = "Cpp" /\ call.demangled = "same"
    /\ result = Unknown("f", 1)

SignatureForDecoratedName ==
    /\ FunctionDone
    /\ call.index # 0
    /\ call.name = "@f@9"
    /\ result.tag = "Undecorated"

HasPrefix(text, pre) ==
    Len(text) >= Len(pre) /\ SubSeq(text, 1, Len(pre)) = pre

HasSuffix(text, suf) ==
    Len(text) >= Len(suf)
    /\ SubSeq(text, Len(text) - Len(suf) + 1, Len(text)) = suf

\* a signature has been built for the MemberFunction record at position i
MethodSigned(i) ==
    /\ FunctionDone
    /\ call.name # ""
    /\ call.index = TypeIndexOf(i)
    /\ i \in 1..Len(types)
    /\ types[i].kind = "MemberFunction"
    /\ result.tag = "Undecorated"

\* the this-pointer type of the method is a Pointer record to its class
ThisIsClassPointer(t) ==
    /\ t.this_pointer_type.some
    /\ PosOf(t.this_pointer_type.val) \in 1..Len(types)
    /\ types[PosOf(t.this_pointer_type.val)].kind = "Pointer"
    /\ types[PosOf(t.this_pointer_type.val)].underlying_type = t.class_type

\* the argument text of the method: the printed argument list, after the
\* printed this type when this is present and not a pointer to the class
StatedArguments(t) ==
    LET list == dump_index(t.argument_list).val
    IN  IF ~t.this_pointer_type.some \/ ThisIsClassPointer(t) THEN list
        ELSE IF list = "" THEN dump_index(t.this_pointer_type.val).val
        ELSE dump_index(t.this_pointer_type.val).val \o ", " \o list

\* C12: the signature of a MemberFunction starts with "static " exactly when
\* the record has no this-pointer type; its argument text is the printed
\* argument list alone when this is a Pointer record to the record's class,
\* and otherwise the printed this type, followed by ", " and the printed
\* argument list only if that list is not empty.
C12_MethodSignature ==
    \A i \in 1..Len(types) :
        MethodSigned(i) =>
            /\ HasPrefix(result.name, "static ") <=> ~types[i].this_pointer_type.some
            /\ HasSuffix(result.name,
                         call.name \o "(" \o StatedArguments(types[i]) \o ")")

\* a method whose this is not a pointer to its class has been signed, this
\* first and an argument after it
C12_Witness ==
    \E i \in 1..Len(types) :
        /\ MethodSigned(i)
        /\ types[i].this_pointer_type.some
        /\ ~ThisIsClassPointer(types[i])
        /\ dump_index(types[i].argument_list) = Ok("int")
        /\ HasSuffix(result.name, "(class A, int)")

\* a static method and a method with an implicit this have been signed
StaticMethodSigned ==
    \E i \in 1..Len(types) :
        MethodSigned(i) /\ ~types[i].this_pointer_type.some
            /\ HasPrefix(result.name, "static ")

ImplicitThisSigned ==
    \E i \in 1..Len(types) :
        MethodSigned(i) /\ ThisIsClassPointer(types[i])
            /\ HasSuffix(result.name, "(int)")

----------------------------------------------------------------------------
(* Properties of the type printer *)

PrintDone == call.op = "dump_index"

\* the printed index is the record at position i of the stream
AsksPrint(i) == PrintDone /\ call.index = TypeIndexOf(i)

IsRecord(index) == PosOf(index) \in 1..Len(types)

\* The chain of nested Array records that starts at `index`, each with one
\* stored dimension: the dimensions outermost first and the index of the
\* element under the innermost array; not ok when the chain does not end
\* within `fuel` records or a record of it has not exactly one dimension.
RECURSIVE ArrayChain(_, _)
ArrayChain(index, fuel) ==
    IF ~IsRecord(index) \/ types[PosOf(index)].kind # "Array"
    THEN [ok |-> TRUE, dims |-> <<>>, base |-> index]
    ELSE IF fuel = 0 \/ Len(types[PosOf(index)].dimensions) # 1
    THEN [ok |-> FALSE]
    ELSE LET a == types[PosOf(index)]
             rest == ArrayChain(a.element_type, fuel - 1)
         IN  IF ~rest.ok THEN rest
             ELSE [ok |-> TRUE, dims |-> <<a.dimensions[1]>> \o rest.dims,
                   base |-> rest.base]

\* the size each cumulative size is divided by: the next-inner cumulative
\* size, and the element size e for the innermost
Divisor(dims, e, k) == IF k = Len(dims) THEN e ELSE dims[k + 1]

\* the bracket groups for levels k.. of the chain, outermost first
RECURSIVE BracketGroups(_, _, _)
BracketGroups(dims, e, k) ==
    IF k > Len(dims) THEN ""
    ELSE "[" \o ToString(dims[k] \div Divisor(dims, e, k)) \o "]"
         \o BracketGroups(dims, e, k + 1)

\* the size at level k is a whole number of times the size it wraps
Cumulative(dims, e, k) ==
    IF Divisor(dims, e, k) = 0 THEN dims[k] = 0
    ELSE dims[k] % Divisor(dims, e, k) = 0

\* a chain of cumulative sizes over an element that has a size e > 0 and
\* prints
StatedChain(c) ==
    /\ c.ok
    /\ c.dims # <<>>
    /\ get_type_size(c.base).tag = "Ok"
    /\ get_type_size(c.base).val > 0
    /\ \A k \in 1..Len(c.dims) : Cumulative(c.dims, get_type_size(c.base).val, k)
    /\ dump_index(c.base).tag = "Ok"

\* every extent of the chain is a defined quotient
DefinedExtents(c) ==
    \A k \in 1..Len(c.dims) : Divisor(c.dims, get_type_size(c.base).val, k) > 0

\* the text the chain is to print as
RecoveredText(c) ==
    dump_index(c.base).val \o BracketGroups(c.dims, get_type_size(c.base).val, 1)

\* C7: for a chain of nested Array records storing cumulative byte sizes
\* over a base element of size e > 0, dump_array prints the base type and
\* then one bracket group per level, outermost first: the innermost extent
\* is its cumulative size / e, every other extent its cumulative size / the
\* next-inner cumulative size.
C7_ArrayRecovery ==
    PrintDone =>
        LET c == ArrayChain(call.index, Len(types))
        IN  StatedChain(c) =>
                /\ result.tag = "Ok"
                /\ DefinedExtents(c) => result = Ok(RecoveredText(c))

\* the same for the chains no inner level of which has cumulative size 0
ArrayRecoveryDefined ==
    PrintDone =>
        LET c == ArrayChain(call.index, Len(types))
        IN  (StatedChain(c) /\ DefinedExtents(c)) => result = Ok(RecoveredText(c))

\* int[12][34], stored as outer 1632 over inner 136, has been printed
ArrayRecoveryReached ==
    /\ PrintDone
    /\ IsRecord(call.index)
    /\ types[PosOf(call.index)] = Array(TypeIndexOf(1), <<1632>>)
    /\ types[1] = Array(116, <<136>>)
    /\ result = Ok("int[12][34]")

HasSubstring(text, sub) ==
    \E i \in 1..(Len(text) - Len(sub) + 1) : SubSeq(text, i, i + Len(sub) - 1) = sub

\* record i is a Pointer, Modifier, Array or ArgumentList directly over the
\* record at position j (an ArgumentList with only primitives beside it)
WrapsDirectly(i, j) ==
    LET t == types[i]
    IN  \/ t.kind \in {"Pointer", "Modifier"} /\ t.underlying_type = TypeIndexOf(j)
        \/ /\ t.kind = "Array"
           /\ t.dimensions # <<>>
           /\ t.element_type = TypeIndexOf(j)
        \/ /\ t.kind = "ArgumentList"
           /\ \E n \in 1..Len(t.arguments) : t.arguments[n] = TypeIndexOf(j)
           /\ \A n \in 1..Len(t.arguments) :
                t.arguments[n] \in PrimitiveIndexes \cup {TypeIndexOf(j)}

\* C8: printing never aborts on an unrecognised record kind: a Pointer,
\* Array, Modifier or ArgumentList over a record of an unrecognised kind
\* prints, with the diagnostic placeholder for that record in its text.
C8_UnhandledStillPrints ==
    \A i, j \in 1..Len(types) :
        (AsksPrint(i) /\ types[j].kind = "Other" /\ WrapsDirectly(i, j))
        => /\ result.tag = "Ok"
           /\ HasSubstring(result.val, Unhandled(types[j]))

\* C8 for every composite but Array
C8_UnhandledStillPrintsNoArray ==
    \A i \in 1..Len(types) :
        (PrintDone /\ types[i].kind # "Array") => 
            \A j \in 1..Len(types) :
                (AsksPrint(i) /\ types[j].kind = "Other" /\ WrapsDirectly(i, j))
                => /\ result.tag = "Ok"
                   /\ HasSubstring(result.val, Unhandled(types[j]))

----------------------------------------------------------------------------
(* Properties of the forward-reference table *)

\* the name a defining record is entered under: its unique name if it has
\* one, else its display name
TableKey(t) == IF t.unique_name.some THEN t.unique_name.val ELSE t.name

\* record i is a Class or Union that is not forward-declared
Defines(i) == types[i].kind \in {"Class", "Union"} /\ ~types[i].forward_reference

\* the defining records among the first n that carry the name
DefinersOf(name, n) == {i \in 1..n : Defines(i) /\ TableKey(types[i]) = name}

LastOf(S) == CHOOSE i \in S : \A j \in S : j <= i

\* the names carried by a defining record among the first n
DefinedNames(n) == {TableKey(types[i]) : i \in {j \in 1..n : Defines(j)}}

\* C13: once TypeDumper::new has scanned a sequence of records, the table
\* has exactly one entry per linkage name of a Class or Union record that is
\* not forward-declared, holding the size of the last such record in scan
\* order; forward-declared records and records of other kinds add and
\* change nothing, and no later size, print or name query modifies it.  In
\* every state the table is the one of the records scanned so far.
C13_TableLastWins ==
    /\ DOMAIN fwd = DefinedNames(scanned)
    /\ \A name \in DOMAIN fwd :
          fwd[name] = types[LastOf(DefinersOf(name, scanned))].size

\* a constructed dumper has answered a query, its table holding the later of
\* two sizes defined under one name, the earlier one under a unique name,
\* with a forward-declared record in the stream
C13_Witness ==
    /\ pc = "ready"
    /\ call # NoCall
    /\ \E i, k, j \in 1..Len(types) :
        /\ i < k
        /\ Defines(i) /\ Defines(k)
        /\ types[i].unique_name.some
        /\ TableKey(types[i]) = TableKey(types[k])
        /\ types[i].size # types[k].size
        /\ types[j].kind \in {"Class", "Union"} /\ types[j].forward_reference
        /\ fwd[TableKey(types[i])] = types[k].size

\* a step changes the table only by scanning a defining record
TableChangesOnlyByDefinition ==
    [][fwd' # fwd => (pc = "new" /\ scanned' = scanned + 1 /\ Defines(scanned'))]_vars

----------------------------------------------------------------------------
(* Properties of the chain walks *)

NoRepeat(seq) == \A i, j \in 1..Len(seq) : seq[i] = seq[j] => i = j

\* C10: every size and print query terminates on every catalog: a walk over
\* a cyclic chain is cut off instead of looping, so no walk looks up an
\* index it has already been through (each step depends on the index alone:
\* a walk that comes back to an index repeats itself for ever).
C10_NoLooping ==
    walk # NoWalk => NoRepeat(Append(walk.visited, walk.next))

\* a walk over a chain without a repeated index ends, with the result of the
\* query in one piece
WalkAgreesWithQuery ==
    (call.op \in {"get_type_size", "dump_index"} /\ walk = NoWalk
        /\ result # NoResult) =>
        result = IF call.op = "get_type_size" THEN get_type_size(call.index)
                 ELSE dump_index(call.index)

=============================================================================
